---- MODULE Spec2Model ----
(***************************************************************************)
(* Regulated strategic lending: the borrower's best response, the         *)
(* population generator, the per-threshold evaluator, the lambda sweep     *)
(* and the parameter explorer of src/env and src/util.                     *)
(*                                                                         *)
(* Numbers.  The program computes on floats; the model computes on exact   *)
(* fixed-point integers, every quantity in the unit that lets the source's *)
(* expressions be written as they stand:                                   *)
(*   z, t, theta, delta, a, z_mean, z_std, k, p_L, uniform draws : tenths  *)
(*   b, h, U_adjust, U_no, adjustment costs                : thousandths  *)
(*   pi_G, pi_B, Pi, lam, objective                         : tenths       *)
(* so that k * delta^2 (tenths^3) compares with b (thousandths).  A        *)
(* quotient x / n is kept as the pair <<x, n>>.  The IEEE values +inf,     *)
(* -inf and NaN are PosInf, NegInf and NaN, with the arithmetic of X*.     *)
(***************************************************************************)
EXTENDS Integers, Sequences, FiniteSets, TLC

VARIABLES cfg, rng, borrowers, born, lastSeed, op, ret, results, results_sorted

vars == <<cfg, rng, borrowers, born, lastSeed, op, ret, results, results_sorted>>

(***************************************************************************)
(* IEEE extended values                                                    *)
(***************************************************************************)
PosInf == 1000000

NegInf == 0 - PosInf

NaN == PosInf + 1

IsFinite(x) == x \notin {PosInf, NegInf, NaN}

XNeg(x) == IF x = NaN THEN NaN ELSE 0 - x

XAdd(x, y) ==
    IF x = NaN \/ y = NaN THEN NaN
    ELSE IF IsFinite(x) /\ IsFinite(y) THEN x + y
    ELSE IF IsFinite(x) THEN y
    ELSE IF IsFinite(y) THEN x
    ELSE IF x = y THEN x ELSE NaN

XSub(x, y) == XAdd(x, XNeg(y))

XMul(x, y) ==
    IF x = NaN \/ y = NaN THEN NaN
    ELSE IF IsFinite(x) /\ IsFinite(y) THEN x * y
    ELSE IF x = 0 \/ y = 0 THEN NaN
    ELSE IF (x > 0) = (y > 0) THEN PosInf ELSE NegInf

\* x > y on floats: false as soon as one side is NaN
XGt(x, y) == x # NaN /\ y # NaN /\ x > y

(***************************************************************************)
(* Borrower (src/env/borrower.py)                                          *)
(***************************************************************************)
Borrower(z, k, theta, b, h, is_low_cost) ==
    [z |-> z, k |-> k, theta |-> theta, b |-> b, h |-> h,
     is_low_cost |-> is_low_cost]

is_good(self) == self.z >= self.theta

best_response_strict(self, t) ==
    IF self.z >= t THEN 0
    ELSE LET delta == t - self.z IN
         IF delta <= 0 THEN 0
         ELSE LET U_adjust == self.b - self.k * (delta * delta)
                  U_no == IF is_good(self) THEN 0 - self.h ELSE 0
              IN IF U_adjust > U_no THEN delta ELSE 0

best_response(self, t) ==
    IF self.z >= t THEN 0
    ELSE LET delta == t - self.z IN
         IF delta <= 0 THEN 0
         ELSE LET U_adjust == self.b - self.k * (delta * delta)
                  U_no == IF is_good(self) THEN 0 - self.h ELSE 0
              IN IF U_adjust >= U_no THEN delta ELSE 0

adjustment_cost(self, a) == self.k * (a * a)

(***************************************************************************)
(* Python values that are not numbers                                      *)
(***************************************************************************)
None == NaN + 1

NoStats == [none |-> TRUE]

Zero == <<0, 1>>

ZeroDivisionError == <<"ZeroDivisionError">>

Raise(e) == [raised |-> e]

\* x / n of Python: a fault when n = 0
PyDiv(x, n) ==
    IF n = 0 THEN ZeroDivisionError
    ELSE IF x = 0 THEN Zero ELSE <<x, n>>

(***************************************************************************)
(* The random stream.  numpy's generator is a deterministic function of    *)
(* the seed and of the number of variates already drawn; the model keeps   *)
(* exactly that pair and takes a small fixed function for the raw output.  *)
(***************************************************************************)
default_rng(seed) == [seed |-> seed, pos |-> 0]

Raw(seed, pos) == (1 + 3 * seed + (4 + seed) * pos) % 11

\* a standard normal variate, in units of one standard deviation
StdNormal(raw) ==
    IF raw = 0 THEN 0 - 2
    ELSE IF raw <= 3 THEN 0 - 1
    ELSE IF raw <= 6 THEN 0
    ELSE IF raw <= 8 THEN 1 ELSE 2

\* rng.normal(mean, std, size): the next `size` variates of the stream
rng_normal(g, mean, std, size) ==
    [i \in 1..size |-> mean + std * StdNormal(Raw(g.seed, g.pos + i - 1))]

\* rng.uniform(size): the next `size` variates, in [0, 1), in tenths
rng_uniform(g, size) ==
    [i \in 1..size |-> Raw(g.seed, g.pos + i - 1) % 10]

advance(g, size) == [seed |-> g.seed, pos |-> g.pos + size]

(***************************************************************************)
(* StrategicLendingEnv.reset_population (src/env/environment.py)           *)
(***************************************************************************)
reset_population_noreseed(c, g, old, seed) ==
    LET g1 == g
        cleared == <<>>
        z_vals == rng_normal(g1, c.z_mean, c.z_std, c.N)
        g2 == advance(g1, c.N)
        is_low_cost == [i \in 1..c.N |-> rng_uniform(g2, c.N)[i] < c.p_L]
        g3 == advance(g2, c.N)
        made == [i \in 1..c.N |->
                   Borrower(z_vals[i],
                            IF is_low_cost[i] THEN c.k_L ELSE c.k_H,
                            c.theta, c.b, c.h, is_low_cost[i])]
    IN [rng |-> g3, borrowers |-> cleared \o made]

reset_population(c, g, old, seed) ==
    LET g1 == IF seed # None THEN default_rng(seed) ELSE g
        cleared == <<>>
        z_vals == rng_normal(g1, c.z_mean, c.z_std, c.N)
        g2 == advance(g1, c.N)
        is_low_cost == [i \in 1..c.N |-> rng_uniform(g2, c.N)[i] < c.p_L]
        g3 == advance(g2, c.N)
        made == [i \in 1..c.N |->
                   Borrower(z_vals[i],
                            IF is_low_cost[i] THEN c.k_L ELSE c.k_H,
                            c.theta, c.b, c.h, is_low_cost[i])]
    IN [rng |-> g3, borrowers |-> cleared \o made]

\* StrategicLendingEnv(**params): the fields, a seeded stream, one generation
NewEnv(c, seed) == reset_population(c, default_rng(seed), <<>>, None)

(***************************************************************************)
(* StrategicLendingEnv.evaluate_threshold                                  *)
(***************************************************************************)
Acc0 ==
    [Pi |-> 0, H |-> 0, n_L |-> 0, n_H |-> 0, acc_L |-> 0, acc_H |-> 0,
     cost_L |-> 0, cost_H |-> 0]

EvalStep_profit_on_all(s, borrower, c, t) ==
    LET a == best_response(borrower, t)
        sc == borrower.z + a
        accepted == sc >= t
        good == is_good(borrower)
        low == borrower.is_low_cost
    IN [Pi |-> IF accepted THEN XAdd(s.Pi, c.pi_G) ELSE s.Pi,
        H |-> IF (~accepted) /\ good THEN s.H + 1 ELSE s.H,
        n_L |-> IF low THEN s.n_L + 1 ELSE s.n_L,
        n_H |-> IF low THEN s.n_H ELSE s.n_H + 1,
        acc_L |-> IF low /\ accepted THEN s.acc_L + 1 ELSE s.acc_L,
        acc_H |-> IF (~low) /\ accepted THEN s.acc_H + 1 ELSE s.acc_H,
        cost_L |-> IF low THEN s.cost_L + adjustment_cost(borrower, a)
                   ELSE s.cost_L,
        cost_H |-> IF low THEN s.cost_H
                   ELSE s.cost_H + adjustment_cost(borrower, a)]

\* one iteration of the loop over self.borrowers
EvalStep(s, borrower, c, t) ==
    LET a == best_response(borrower, t)
        sc == borrower.z + a
        accepted == sc >= t
        good == is_good(borrower)
        low == borrower.is_low_cost
    IN [Pi |-> IF accepted
                 THEN (IF good THEN XAdd(s.Pi, c.pi_G) ELSE XAdd(s.Pi, c.pi_B))
                 ELSE s.Pi,
        H |-> IF (~accepted) /\ good THEN s.H + 1 ELSE s.H,
        n_L |-> IF low THEN s.n_L + 1 ELSE s.n_L,
        n_H |-> IF low THEN s.n_H ELSE s.n_H + 1,
        acc_L |-> IF low /\ accepted THEN s.acc_L + 1 ELSE s.acc_L,
        acc_H |-> IF (~low) /\ accepted THEN s.acc_H + 1 ELSE s.acc_H,
        cost_L |-> IF low THEN s.cost_L + adjustment_cost(borrower, a)
                   ELSE s.cost_L,
        cost_H |-> IF low THEN s.cost_H
                   ELSE s.cost_H + adjustment_cost(borrower, a)]

RECURSIVE EvalLoop(_, _, _, _, _)
EvalLoop(bs, c, t, i, s) ==
    IF i > Len(bs) THEN s
    ELSE EvalLoop(bs, c, t, i + 1, EvalStep(s, bs[i], c, t))

group_mean_unguarded(total, n) == PyDiv(total, n)

\* total / n if n > 0 else 0.0
group_mean(total, n) == IF n > 0 THEN PyDiv(total, n) ELSE Zero

objective_plus(Pi, lam, H) == XAdd(Pi, XMul(lam, H))

\* objective = Pi - lam * H
objective_of(Pi, lam, H) == XSub(Pi, XMul(lam, H))

evaluate_threshold(bs, c, t, lam) ==
    LET s == EvalLoop(bs, c, t, 1, Acc0)
        acc_L_rate == group_mean(s.acc_L, s.n_L)
        acc_H_rate == group_mean(s.acc_H, s.n_H)
        avg_cost_L == group_mean(s.cost_L, s.n_L)
        avg_cost_H == group_mean(s.cost_H, s.n_H)
        objective == objective_of(s.Pi, lam, s.H)
    IN IF ZeroDivisionError \in {acc_L_rate, acc_H_rate, avg_cost_L, avg_cost_H}
       THEN Raise("ZeroDivisionError")
       ELSE [raised |-> "",
             objective |-> objective,
             stats |-> [Pi |-> s.Pi, H |-> s.H,
                        acc_L |-> acc_L_rate, acc_H |-> acc_H_rate,
                        avg_cost_L |-> avg_cost_L, avg_cost_H |-> avg_cost_H]]

(***************************************************************************)
(* StrategicLendingEnv.sweep_lambda                                        *)
(***************************************************************************)
Best0 ==
    [raised |-> "", best_obj |-> NegInf, best_t |-> None, best_stats |-> NoStats]

ScanStep_last(best, t, r) ==
    IF XGt(r.objective, best.best_obj) \/ r.objective = best.best_obj
    THEN [raised |-> "", best_obj |-> r.objective, best_t |-> t,
          best_stats |-> r.stats]
    ELSE best

\* if obj > best_obj: best_obj, best_t, best_stats = obj, t, stats
ScanStep(best, t, r) ==
    IF XGt(r.objective, best.best_obj)
    THEN [raised |-> "", best_obj |-> r.objective, best_t |-> t,
          best_stats |-> r.stats]
    ELSE best

\* for t in t_grid: ...
RECURSIVE Scan(_, _, _, _, _, _)
Scan(bs, c, lam, t_grid, j, best) ==
    IF j > Len(t_grid) THEN best
    ELSE LET r == evaluate_threshold(bs, c, t_grid[j], lam) IN
         IF r.raised # "" THEN Raise(r.raised)
         ELSE Scan(bs, c, lam, t_grid, j + 1, ScanStep(best, t_grid[j], r))

SweepRecord(lam, best) ==
    [lambda |-> lam, t_star |-> best.best_t,
     Pi |-> best.best_stats.Pi, H |-> best.best_stats.H,
     acc_L |-> best.best_stats.acc_L, acc_H |-> best.best_stats.acc_H,
     avg_cost_L |-> best.best_stats.avg_cost_L,
     avg_cost_H |-> best.best_stats.avg_cost_H]

RECURSIVE SweepLoop_prepend(_, _, _, _, _, _)
SweepLoop_prepend(bs, c, lambda_grid, t_grid, i, res) ==
    IF i > Len(lambda_grid) THEN [raised |-> "", results |-> res]
    ELSE LET best == Scan(bs, c, lambda_grid[i], t_grid, 1, Best0) IN
         IF best.raised # "" THEN Raise(best.raised)
         ELSE IF best.best_stats = NoStats THEN Raise("TypeError")
         ELSE SweepLoop_prepend(bs, c, lambda_grid, t_grid, i + 1,
                                <<SweepRecord(lambda_grid[i], best)>> \o res)

\* for lam in lambda_grid: ... results.append({...}); subscripting the None
\* that best_stats still is when no threshold won is a TypeError
RECURSIVE SweepLoop(_, _, _, _, _, _)
SweepLoop(bs, c, lambda_grid, t_grid, i, res) ==
    IF i > Len(lambda_grid) THEN [raised |-> "", results |-> res]
    ELSE LET best == Scan(bs, c, lambda_grid[i], t_grid, 1, Best0) IN
         IF best.raised # "" THEN Raise(best.raised)
         ELSE IF best.best_stats = NoStats THEN Raise("TypeError")
         ELSE SweepLoop(bs, c, lambda_grid, t_grid, i + 1,
                        Append(res, SweepRecord(lambda_grid[i], best)))

sweep_lambda(bs, c, lambda_grid, t_grid) ==
    SweepLoop(bs, c, lambda_grid, t_grid, 1, <<>>)

(***************************************************************************)
(* find_unregulated_optimum (src/util/sweep_params.py)                     *)
(***************************************************************************)
FindStep(best, t, r) ==
    IF XGt(r.objective, best.best_obj)
    THEN [raised |-> "", best_obj |-> r.objective, best_t |-> t,
          best_stats |-> r.stats]
    ELSE best

RECURSIVE FindLoop(_, _, _, _, _, _)
FindLoop(bs, c, lam, t_grid, j, best) ==
    IF j > Len(t_grid) THEN best
    ELSE LET r == evaluate_threshold(bs, c, t_grid[j], lam) IN
         IF r.raised # "" THEN Raise(r.raised)
         ELSE FindLoop(bs, c, lam, t_grid, j + 1, FindStep(best, t_grid[j], r))

find_unregulated_optimum(params, seed, t_grid) ==
    LET env == NewEnv(params, seed)
        lam == 0
        best == FindLoop(env.borrowers, params, lam, t_grid, 1, Best0)
    IN IF best.raised # "" THEN Raise(best.raised)
       ELSE [raised |-> "", t_star |-> best.best_t, stats |-> best.best_stats]

(***************************************************************************)
(* Bounds and input sets                                                   *)
(***************************************************************************)
MaxN == 3

MaxTGrid == 2

MaxLGrid == 2

MaxUnseeded == 1

Seeds == {0, 1}

TVals == {0, 10, 20}

LamVals == {0, 10}

SeqsUpTo(S, n) == UNION {[1..k -> S] : k \in 0..n}

Config(N, p_L, b, h, k_H, pi_B) ==
    [N |-> N, p_L |-> p_L, theta |-> 0, b |-> b, h |-> h, k_L |-> 1,
     k_H |-> k_H, pi_G |-> 2, pi_B |-> pi_B, z_mean |-> 0, z_std |-> 10]

Configs ==
    { Config(3, 10, 1000, 500, 3, 0 - 2),
      Config(0, 5, 1000, 500, 3, 0 - 2),
      Config(MaxN, 3, 1000, 100, 3, 0 - 6),
      Config(MaxN, 5, 1000, 500, 10, 0 - 2),
      Config(MaxN, 0, 800, 300, 7, 0 - 4),
      Config(1, 5, 800, 100, 10, 0 - 6) }

(***************************************************************************)
(* The environment as a state machine                                      *)
(***************************************************************************)
Snapshot(c, g, bs) == [cfg |-> c, rng |-> g, borrowers |-> bs]

\* StrategicLendingEnv.__init__
InitEnv(configs, seeds) ==
    \E c \in configs, seed \in seeds :
        LET e == NewEnv(c, seed) IN
        /\ cfg = c
        /\ rng = e.rng
        /\ borrowers = e.borrowers
        /\ born = Snapshot(c, e.rng, e.borrowers)
        /\ lastSeed = [seed |-> seed, cont |-> 0]
        /\ op = [name |-> "__init__", seed |-> seed]
        /\ ret = [raised |-> ""]
        /\ results = <<>>
        /\ results_sorted = <<>>

Init == InitEnv(Configs, Seeds)

\* calls are sequential: one starts when the previous one has returned
Ready == op.name \in {"__init__", "idle"}

ResetPopulation(seed) ==
    /\ Ready
    /\ seed = None => lastSeed.cont < MaxUnseeded
    /\ LET e == reset_population(cfg, rng, borrowers, seed) IN
       /\ rng' = e.rng
       /\ borrowers' = e.borrowers
       /\ born' = Snapshot(cfg, e.rng, e.borrowers)
    /\ lastSeed' = IF seed # None THEN [seed |-> seed, cont |-> 0]
                   ELSE [seed |-> lastSeed.seed, cont |-> lastSeed.cont + 1]
    /\ op' = [name |-> "reset_population", seed |-> seed, from |-> rng]
    /\ ret' = [raised |-> ""]
    /\ UNCHANGED <<cfg, results, results_sorted>>

EvaluateThreshold_keeps_score(t, lam) ==
    /\ Ready
    /\ op' = [name |-> "evaluate_threshold", t |-> t, lam |-> lam,
              after |-> IF op.name = "idle" THEN op.last ELSE op.name]
    /\ ret' = evaluate_threshold(borrowers, cfg, t, lam)
    /\ borrowers' = [i \in 1..Len(borrowers) |->
                       [borrowers[i] EXCEPT
                          !.z = @ + best_response(borrowers[i], t)]]
    /\ UNCHANGED <<cfg, rng, born, lastSeed, results, results_sorted>>

EvaluateThreshold(t, lam) ==
    /\ Ready
    /\ op' = [name |-> "evaluate_threshold", t |-> t, lam |-> lam,
              after |-> IF op.name = "idle" THEN op.last ELSE op.name]
    /\ ret' = evaluate_threshold(borrowers, cfg, t, lam)
    /\ UNCHANGED <<cfg, rng, borrowers, born, lastSeed, results, results_sorted>>

SweepLambda(lambda_grid, t_grid) ==
    /\ Ready
    /\ op' = [name |-> "sweep_lambda", lambda_grid |-> lambda_grid,
              t_grid |-> t_grid]
    /\ ret' = sweep_lambda(borrowers, cfg, lambda_grid, t_grid)
    /\ UNCHANGED <<cfg, rng, borrowers, born, lastSeed, results, results_sorted>>

FindUnregulatedOptimum(params, seed, t_grid) ==
    /\ Ready
    /\ op' = [name |-> "find_unregulated_optimum", params |-> params,
              seed |-> seed, t_grid |-> t_grid]
    /\ ret' = find_unregulated_optimum(params, seed, t_grid)
    /\ UNCHANGED <<cfg, rng, borrowers, born, lastSeed, results, results_sorted>>

\* the caller has taken the returned value
Return ==
    /\ op.name \notin {"__init__", "idle"}
    /\ op' = [name |-> "idle", last |-> op.name]
    /\ ret' = [raised |-> ""]
    /\ UNCHANGED <<cfg, rng, borrowers, born, lastSeed, results, results_sorted>>

Next ==
    \/ \E seed \in Seeds \cup {None} : ResetPopulation(seed)
    \/ \E t \in TVals, lam \in LamVals : EvaluateThreshold(t, lam)
    \/ \E lg \in SeqsUpTo(LamVals, MaxLGrid), tg \in SeqsUpTo(TVals, MaxTGrid) :
          SweepLambda(lg, tg)
    \/ \E seed \in Seeds, tg \in SeqsUpTo(TVals, MaxTGrid) :
          FindUnregulatedOptimum(cfg, seed, tg)
    \/ Return

Spec == Init /\ [][Next]_vars

(***************************************************************************)
(* Properties of the environment (specification Spec)                      *)
(***************************************************************************)
Idx(bs) == 1..Len(bs)

AcceptedIdx(bs, t) == {i \in Idx(bs) : bs[i].z + best_response(bs[i], t) >= t}

GoodIdx(bs) == {i \in Idx(bs) : bs[i].z >= bs[i].theta}

\* the population A(z=-1), B(z=0), C(z=2), k=0.1, b=1, h=0.5, theta=0
IsScenario ==
    /\ Len(borrowers) = 3
    /\ borrowers[1].z = 0 - 10 /\ borrowers[2].z = 0 /\ borrowers[3].z = 20
    /\ \A i \in Idx(borrowers) :
          /\ borrowers[i].k = 1 /\ borrowers[i].b = 1000
          /\ borrowers[i].h = 500 /\ borrowers[i].theta = 0
    /\ cfg.pi_G = 2 /\ cfg.pi_B = 0 - 2

\* C1: evaluate_threshold(t, lam) returns Pi = pi_G * #(accepted and good) +
\* pi_B * #(accepted and not good), H = #(good and not accepted) and
\* objective = Pi - lam * H, a borrower being accepted iff
\* z + best_response(t) >= t and good iff z >= theta; on the scenario
\* population at t = 0 this is Pi = 0.2 and H = 0.
C1_EvaluateTotals ==
    op.name = "evaluate_threshold" =>
        LET acc == AcceptedIdx(borrowers, op.t)
            good == GoodIdx(borrowers)
        IN /\ ret.raised = ""
           /\ ret.stats.Pi = cfg.pi_G * Cardinality(acc \cap good)
                             + cfg.pi_B * Cardinality(acc \ good)
           /\ ret.stats.H = Cardinality(good \ acc)
           /\ ret.objective = ret.stats.Pi - op.lam * ret.stats.H
           /\ (IsScenario /\ op.t = 0) => (ret.stats.Pi = 2 /\ ret.stats.H = 0)

C1_Witness ==
    /\ op.name = "evaluate_threshold" /\ op.t = 0 /\ op.lam = 10
    /\ IsScenario
    /\ ret.raised = "" /\ ret.stats.Pi = 2 /\ ret.stats.H = 0
    /\ ret.objective = 2

C1_WitnessHarm ==
    /\ op.name = "evaluate_threshold" /\ op.lam > 0
    /\ ret.raised = "" /\ ret.stats.H > 0
    /\ AcceptedIdx(borrowers, op.t) \ GoodIdx(borrowers) # {}

ObjAt(bs, c, t_grid, lam, j) == evaluate_threshold(bs, c, t_grid[j], lam).objective

\* the objective at every threshold of t_grid
Objectives(bs, c, t_grid, lam) ==
    [m \in 1..Len(t_grid) |-> ObjAt(bs, c, t_grid, lam, m)]

\* index j is the first whose objective is the maximum of objs
FirstMax(objs, j) ==
    /\ \A m \in DOMAIN objs : objs[m] <= objs[j]
    /\ \A m \in 1..(j - 1) : objs[m] < objs[j]

StatsOf(rec) ==
    [Pi |-> rec.Pi, H |-> rec.H, acc_L |-> rec.acc_L, acc_H |-> rec.acc_H,
     avg_cost_L |-> rec.avg_cost_L, avg_cost_H |-> rec.avg_cost_H]

\* C2: for every lam of lambda_grid the reported t_star is the first threshold
\* of t_grid, in scan order, whose objective is the maximum over t_grid, the
\* reported statistics are those of evaluate_threshold at t_star, with lam = 0
\* t_star maximizes Pi alone, and find_unregulated_optimum does the same with
\* lam = 0 on the environment it builds.
C2_FirstMaximum ==
    /\ (op.name = "sweep_lambda" /\ ret.raised = "") =>
          \A i \in 1..Len(ret.results) :
             LET rec == ret.results[i]
                 objs == Objectives(borrowers, cfg, op.t_grid, rec.lambda)
             IN
             /\ \E j \in 1..Len(op.t_grid) :
                   rec.t_star = op.t_grid[j] /\ FirstMax(objs, j)
             /\ StatsOf(rec) =
                  evaluate_threshold(borrowers, cfg, rec.t_star, rec.lambda).stats
             /\ rec.lambda = 0 =>
                  \A m \in 1..Len(op.t_grid) :
                     evaluate_threshold(borrowers, cfg, op.t_grid[m], 0).stats.Pi
                       <= rec.Pi
    /\ (op.name = "find_unregulated_optimum" /\ ret.raised = ""
          /\ Len(op.t_grid) > 0) =>
          LET bs == NewEnv(op.params, op.seed).borrowers
              objs == Objectives(bs, op.params, op.t_grid, 0)
          IN
          /\ \E j \in 1..Len(op.t_grid) :
                ret.t_star = op.t_grid[j] /\ FirstMax(objs, j)
          /\ ret.stats = evaluate_threshold(bs, op.params, ret.t_star, 0).stats

\* a tie between two different thresholds, the earlier one reported
C2_Witness ==
    /\ op.name = "sweep_lambda" /\ ret.raised = ""
    /\ Len(op.t_grid) = 2 /\ Len(ret.results) > 0
    /\ op.t_grid[1] # op.t_grid[2]
    /\ ObjAt(borrowers, cfg, op.t_grid, ret.results[1].lambda, 1)
         = ObjAt(borrowers, cfg, op.t_grid, ret.results[1].lambda, 2)
    /\ ret.results[1].t_star = op.t_grid[1]

NoLow(bs) == \A i \in Idx(bs) : ~bs[i].is_low_cost

NoHigh(bs) == \A i \in Idx(bs) : bs[i].is_low_cost

\* C4: when a cost group has no member, evaluate_threshold returns 0.0 for its
\* acceptance rate and its average cost and raises nothing; on the empty
\* population Pi = 0, H = 0 and the four group statistics are 0.0.
C4_EmptyGroupZero ==
    op.name = "evaluate_threshold" =>
        /\ ret.raised = ""
        /\ NoLow(borrowers) =>
              (ret.stats.acc_L = Zero /\ ret.stats.avg_cost_L = Zero)
        /\ NoHigh(borrowers) =>
              (ret.stats.acc_H = Zero /\ ret.stats.avg_cost_H = Zero)
        /\ Len(borrowers) = 0 => (ret.stats.Pi = 0 /\ ret.stats.H = 0)

\* a population with members, all of them high-cost, some of them accepted
C4_Witness ==
    /\ op.name = "evaluate_threshold" /\ ret.raised = ""
    /\ Len(borrowers) > 0 /\ NoLow(borrowers)
    /\ ret.stats.acc_L = Zero /\ ret.stats.avg_cost_L = Zero
    /\ ret.stats.acc_H # Zero

C4_WitnessEmpty ==
    /\ op.name = "evaluate_threshold" /\ ret.raised = ""
    /\ Len(borrowers) = 0
    /\ ret.stats.acc_L = Zero /\ ret.stats.acc_H = Zero

\* the population that the variates number 2*N*k .. 2*N*(k+1) - 1 of the
\* stream of `seed` give: N normals, then N uniforms
StreamPopulation(c, seed, k) ==
    [i \in 1..c.N |->
        LET z == c.z_mean + c.z_std * StdNormal(Raw(seed, 2 * c.N * k + i - 1))
            low == (Raw(seed, 2 * c.N * k + c.N + i - 1) % 10) < c.p_L
        IN [z |-> z, k |-> IF low THEN c.k_L ELSE c.k_H, theta |-> c.theta,
            b |-> c.b, h |-> c.h, is_low_cost |-> low]]

\* C6: a population generated with an explicit seed s, by the constructor or by
\* reset_population(seed=s) after any earlier generations, depends only on the
\* configuration and s (it is the one a new environment with seed s holds, the
\* earlier list replaced), sweep_lambda on it returns what it returns on that
\* new environment, and a reset without a seed draws the continuation of the
\* current stream.
C6_SeedDeterminism ==
    /\ Len(borrowers) = cfg.N
    /\ borrowers = StreamPopulation(cfg, lastSeed.seed, lastSeed.cont)
    /\ lastSeed.cont = 0 =>
          /\ borrowers = NewEnv(cfg, lastSeed.seed).borrowers
          /\ op.name = "sweep_lambda" =>
                ret = sweep_lambda(NewEnv(cfg, lastSeed.seed).borrowers, cfg,
                                   op.lambda_grid, op.t_grid)

\* a seeded reset that found the stream of another seed, already continued
C6_Witness ==
    /\ op.name = "reset_population" /\ op.seed # None
    /\ op.from.seed # op.seed /\ op.from.pos > 2 * cfg.N
    /\ cfg.N > 1
    /\ borrowers = NewEnv(cfg, op.seed).borrowers
    /\ borrowers # StreamPopulation(cfg, op.from.seed, 0)

C6_WitnessContinue ==
    /\ op.name = "reset_population" /\ op.seed = None
    /\ cfg.N > 1
    /\ borrowers # NewEnv(cfg, lastSeed.seed).borrowers

\* C9: evaluate_threshold and sweep_lambda leave the borrower list, the
\* configuration and the random stream as the last generation left them, so
\* evaluate_threshold(t, lam) returns what it returns right after the
\* generation, whichever calls ran in between.
C9_NoSideEffects ==
    /\ borrowers = born.borrowers
    /\ cfg = born.cfg
    /\ rng = born.rng
    /\ op.name = "evaluate_threshold" =>
          ret = evaluate_threshold(born.borrowers, born.cfg, op.t, op.lam)

\* an evaluation after a sweep, on a population where some borrower adjusts
C9_Witness ==
    /\ op.name = "evaluate_threshold" /\ op.after = "sweep_lambda"
    /\ \E i \in Idx(borrowers) : best_response(borrowers[i], op.t) > 0
    /\ borrowers = born.borrowers

\* C10: for two entries lam1 < lam2 of lambda_grid, H at t_star(lam2) is at
\* most H at t_star(lam1).
C10_HarmMonotone ==
    (op.name = "sweep_lambda" /\ ret.raised = "") =>
        \A i, j \in 1..Len(ret.results) :
            ret.results[i].lambda < ret.results[j].lambda =>
                ret.results[j].H <= ret.results[i].H

\* the larger penalty moves the optimum to a threshold with strictly less harm
C10_Witness ==
    /\ op.name = "sweep_lambda" /\ ret.raised = ""
    /\ \E i, j \in 1..Len(ret.results) :
          /\ ret.results[i].lambda < ret.results[j].lambda
          /\ ret.results[j].H < ret.results[i].H
          /\ ret.results[j].t_star # ret.results[i].t_star

(***************************************************************************)
(* Borrower.best_response as a function of its inputs (specification       *)
(* SpecBR): one Borrower built directly from its six fields, queried at    *)
(* thresholds t.                                                           *)
(***************************************************************************)
Unused == [none |-> TRUE]

BR_Z == {0 - 20, 0 - 10, 0, 10, 20}

BR_K == {1, 6, 10}

BR_Theta == {0, 10}

BR_B == {100, 1000}

BR_H == {100, 500}

BR_T == {0 - 10, 0, 10, 20}

InitBR ==
    \E z \in BR_Z, k \in BR_K, theta \in BR_Theta, b \in BR_B, h \in BR_H,
       low \in BOOLEAN :
        /\ borrowers = <<Borrower(z, k, theta, b, h, low)>>
        /\ cfg = Unused
        /\ rng = Unused
        /\ born = Unused
        /\ lastSeed = Unused
        /\ op = [name |-> "Borrower"]
        /\ ret = [raised |-> ""]
        /\ results = <<>>
        /\ results_sorted = <<>>

BestResponse(t) ==
    /\ op' = [name |-> "best_response", t |-> t]
    /\ ret' = [raised |-> "", a |-> best_response(borrowers[1], t)]
    /\ UNCHANGED <<cfg, rng, borrowers, born, lastSeed, results, results_sorted>>

AdjustmentCost(a) ==
    /\ op' = [name |-> "adjustment_cost", a |-> a]
    /\ ret' = [raised |-> "", cost |-> adjustment_cost(borrowers[1], a)]
    /\ UNCHANGED <<cfg, rng, borrowers, born, lastSeed, results, results_sorted>>

NextBR ==
    \/ \E t \in BR_T : BestResponse(t)
    \/ \E a \in {0, 10, 20} : AdjustmentCost(a)

SpecBR == InitBR /\ [][NextBR]_vars

BR_U_adjust(bw, t) == bw.b - bw.k * ((t - bw.z) * (t - bw.z))

BR_U_no(bw) == IF bw.z >= bw.theta THEN 0 - bw.h ELSE 0

\* C3: for z < t, best_response(t) is t - z whenever b - k*(t - z)^2 >= U_no
\* (U_no = -h if z >= theta, else 0) and 0 otherwise; at the exact tie
\* b - k*(t - z)^2 = U_no it is t - z, not 0.
C3_TieAdjusts ==
    (op.name = "best_response" /\ borrowers[1].z < op.t) =>
        LET bw == borrowers[1] IN
        /\ BR_U_adjust(bw, op.t) >= BR_U_no(bw) => ret.a = op.t - bw.z
        /\ BR_U_adjust(bw, op.t) < BR_U_no(bw) => ret.a = 0
        /\ BR_U_adjust(bw, op.t) = BR_U_no(bw) => (ret.a = op.t - bw.z /\ ret.a # 0)

\* a creditworthy borrower exactly indifferent: b - k*delta^2 = -h
C3_Witness ==
    /\ op.name = "best_response" /\ borrowers[1].z < op.t
    /\ borrowers[1].z >= borrowers[1].theta
    /\ BR_U_adjust(borrowers[1], op.t) = 0 - borrowers[1].h
    /\ ret.a = op.t - borrowers[1].z

C3_WitnessBad ==
    /\ op.name = "best_response" /\ borrowers[1].z < op.t
    /\ borrowers[1].z < borrowers[1].theta
    /\ BR_U_adjust(borrowers[1], op.t) = 0
    /\ ret.a = op.t - borrowers[1].z

(***************************************************************************)
(* The sweeps on inputs that are not validated (specification SpecNF):     *)
(* penalties and per-loan profits may be +inf, -inf or NaN, grids may be   *)
(* empty.                                                                  *)
(***************************************************************************)
LamValsNF == {0, 10, PosInf, NegInf}

SeedsNF == {0, 1}

\* configurations with finite profits, with pi_G = +inf, and with pi_G = +inf
\* and pi_B = -inf
ConfigsNF ==
    LET base == {c \in Configs : c.pi_B = 0 - 6} IN
    base
      \cup {[c EXCEPT !.pi_G = PosInf] : c \in base}
      \cup {[c EXCEPT !.pi_G = PosInf, !.pi_B = NegInf] : c \in base}

InitNF == InitEnv(ConfigsNF, SeedsNF)

NextNF ==
    \/ \E t \in TVals, lam \in LamValsNF : EvaluateThreshold(t, lam)
    \/ \E lg \in SeqsUpTo(LamValsNF, MaxLGrid), tg \in SeqsUpTo(TVals, MaxTGrid) :
          SweepLambda(lg, tg)
    \/ \E seed \in SeedsNF, tg \in SeqsUpTo(TVals, MaxTGrid) :
          FindUnregulatedOptimum(cfg, seed, tg)
    \/ Return

SpecNF == InitNF /\ [][NextNF]_vars

\* C5: a threshold whose objective is +inf, -inf or NaN is never the t_star
\* that sweep_lambda or find_unregulated_optimum reports.
C5_NonFiniteNeverSelected ==
    /\ (op.name = "sweep_lambda" /\ ret.raised = "") =>
          \A i \in 1..Len(ret.results) :
             IsFinite(evaluate_threshold(borrowers, cfg, ret.results[i].t_star,
                                         ret.results[i].lambda).objective)
    /\ (op.name = "find_unregulated_optimum" /\ ret.raised = ""
          /\ ret.t_star # None) =>
          IsFinite(evaluate_threshold(NewEnv(op.params, op.seed).borrowers,
                                      op.params, ret.t_star, 0).objective)

\* C8 as stated: for every lambda_grid and t_grid sweep_lambda returns one
\* record per entry of lambda_grid, the i-th carrying the i-th lambda.
C8_OneRecordPerLambda ==
    op.name = "sweep_lambda" =>
        /\ ret.raised = ""
        /\ Len(ret.results) = Len(op.lambda_grid)
        /\ \A i \in 1..Len(op.lambda_grid) :
              ret.results[i].lambda = op.lambda_grid[i]

\* some threshold of t_grid has an objective that compares greater than -inf
HasWinner(bs, c, t_grid, lam) ==
    \E j \in 1..Len(t_grid) : XGt(ObjAt(bs, c, t_grid, lam, j), NegInf)

\* C8 (amended): when for every lam of lambda_grid some threshold of t_grid has
\* an objective that compares greater than -inf (every non-empty t_grid does
\* when the profits and lam are finite), sweep_lambda returns one record per
\* entry of lambda_grid, the i-th carrying the i-th lambda; otherwise (an empty
\* t_grid or only NaN and -inf objectives for some lam) it raises TypeError.
C8_OneRecordPerLambdaWithWinner ==
    op.name = "sweep_lambda" =>
        IF \A i \in 1..Len(op.lambda_grid) :
              HasWinner(borrowers, cfg, op.t_grid, op.lambda_grid[i])
        THEN /\ ret.raised = ""
             /\ Len(ret.results) = Len(op.lambda_grid)
             /\ \A i \in 1..Len(op.lambda_grid) :
                   ret.results[i].lambda = op.lambda_grid[i]
        ELSE ret.raised = "TypeError"

\* two different penalties, supplied in descending order, reported in that order
C8_Witness ==
    /\ op.name = "sweep_lambda" /\ ret.raised = ""
    /\ Len(op.lambda_grid) = 2 /\ Len(ret.results) = 2
    /\ op.lambda_grid[1] > op.lambda_grid[2]
    /\ ret.results[1].lambda = op.lambda_grid[1]
    /\ ret.results[2].lambda = op.lambda_grid[2]
    /\ Len(op.t_grid) > 0

C8_WitnessRaise ==
    /\ op.name = "sweep_lambda" /\ ret.raised = "TypeError"
    /\ Len(op.t_grid) > 0

(***************************************************************************)
(* The parameter explorer, main() of src/util/sweep_params.py              *)
(* (specification SpecExplore).  The grids of economic parameters are the  *)
(* program's; the population size and the threshold grid are scaled down   *)
(* (ExploreN borrowers for 10 000, ExploreTPoints thresholds from -1.5     *)
(* upward in steps of 0.5 for the 281 of linspace(-1.5, 4.0, 281)).        *)
(***************************************************************************)
ExploreN == 10

ExploreTPoints == 12

K == 15

explore_t_grid == [i \in 1..ExploreTPoints |-> (0 - 15) + 5 * (i - 1)]

p_L_grid == <<3, 5>>

b_grid == <<800, 1000>>

h_grid == <<100, 300, 500>>

k_L_grid == <<1>>

k_H_grid == <<3, 7, 10>>

pi_G_grid == <<2>>

pi_B_grid == <<0 - 2, 0 - 4, 0 - 6>>

\* the seven grids, outermost loop first
Grids == <<p_L_grid, b_grid, h_grid, k_L_grid, k_H_grid, pi_G_grid, pi_B_grid>>

\* the loop counters after one more iteration of the innermost loop: the
\* innermost counter that can still advance does, the ones inside it restart
RECURSIVE Advance(_, _)
Advance(idx, d) ==
    IF d = 0 THEN idx
    ELSE IF idx[d] < Len(Grids[d]) THEN [idx EXCEPT ![d] = @ + 1]
    ELSE Advance([idx EXCEPT ![d] = 1], d - 1)

LoopsDone(idx) == \A d \in 1..7 : idx[d] = Len(Grids[d])

\* x < y for quotients <<numerator, denominator>>
RatLt(x, y) == x[1] * y[2] < y[1] * x[2]

\* the number of records of run rs that go before a record of key `key`:
\* those of a greater key and, when `ties` holds, those of an equal key
Before(rs, key, ties) ==
    Cardinality({j \in 1..Len(rs) :
                    \/ RatLt(key, rs[j].H_frac)
                    \/ ties /\ rs[j].H_frac = key})

MergeDesc_right_on_tie(left, right) ==
    LET posL(i) == i + Before(right, left[i].H_frac, TRUE)
        posR(j) == j + Before(left, right[j].H_frac, FALSE)
    IN [p \in 1..(Len(left) + Len(right)) |->
           IF \E i \in 1..Len(left) : posL(i) = p
           THEN left[CHOOSE i \in 1..Len(left) : posL(i) = p]
           ELSE right[CHOOSE j \in 1..Len(right) : posR(j) = p]]

\* the merge of two descending runs, each record at the place the merge gives
\* it; of two records with equal keys the one of the left run, enumerated
\* earlier, goes first
MergeDesc(left, right) ==
    LET posL(i) == i + Before(right, left[i].H_frac, FALSE)
        posR(j) == j + Before(left, right[j].H_frac, TRUE)
    IN [p \in 1..(Len(left) + Len(right)) |->
           IF \E i \in 1..Len(left) : posL(i) = p
           THEN left[CHOOSE i \in 1..Len(left) : posL(i) = p]
           ELSE right[CHOOSE j \in 1..Len(right) : posR(j) = p]]

\* sorted(results, key=lambda r: r["H_frac"], reverse=True): Python's sort is
\* a stable merge sort, and reverse=True keeps the stability
RECURSIVE SortedDesc(_)
SortedDesc(rs) ==
    IF Len(rs) <= 1 THEN rs
    ELSE LET half == Len(rs) \div 2 IN
         MergeDesc(SortedDesc(SubSeq(rs, 1, half)),
                   SortedDesc(SubSeq(rs, half + 1, Len(rs))))

\* results_sorted[:K]
Top(rs, n) == SubSeq(rs, 1, IF Len(rs) < n THEN Len(rs) ELSE n)

RegimeParams(idx) ==
    [N |-> ExploreN, p_L |-> p_L_grid[idx[1]], theta |-> 0,
     b |-> b_grid[idx[2]], h |-> h_grid[idx[3]], k_L |-> k_L_grid[idx[4]],
     k_H |-> k_H_grid[idx[5]], pi_G |-> pi_G_grid[idx[6]],
     pi_B |-> pi_B_grid[idx[7]], z_mean |-> 0, z_std |-> 10]

RegimeRecord(params, found) ==
    [p_L |-> params.p_L, b |-> params.b, h |-> params.h, k_L |-> params.k_L,
     k_H |-> params.k_H, pi_G |-> params.pi_G, pi_B |-> params.pi_B,
     t_star |-> found.t_star, Pi |-> found.stats.Pi, H |-> found.stats.H,
     H_frac |-> PyDiv(found.stats.H, params.N),
     acc_L |-> found.stats.acc_L, acc_H |-> found.stats.acc_H,
     cost_L |-> found.stats.avg_cost_L, cost_H |-> found.stats.avg_cost_H]

InitExplore ==
    /\ op = [name |-> "main", pc |-> "loop", idx |-> <<1, 1, 1, 1, 1, 1, 1>>]
    /\ results = <<>>
    /\ results_sorted = <<>>
    /\ ret = [raised |-> ""]
    /\ cfg = Unused
    /\ rng = Unused
    /\ borrowers = <<>>
    /\ born = Unused
    /\ lastSeed = Unused

\* one pass through the body of the innermost loop
MainRegime ==
    /\ op.name = "main" /\ op.pc = "loop"
    /\ LET params == RegimeParams(op.idx)
           found == find_unregulated_optimum(params, 0, explore_t_grid)
       IN results' = Append(results, RegimeRecord(params, found))
    /\ op' = IF LoopsDone(op.idx) THEN [op EXCEPT !.pc = "sort"]
             ELSE [op EXCEPT !.idx = Advance(op.idx, 7)]
    /\ UNCHANGED <<cfg, rng, borrowers, born, lastSeed, ret, results_sorted>>

\* the sort and the report of the first K records
MainReport ==
    /\ op.name = "main" /\ op.pc = "sort"
    /\ results_sorted' = Top(SortedDesc(results), K)
    /\ op' = [op EXCEPT !.pc = "done"]
    /\ UNCHANGED <<cfg, rng, borrowers, born, lastSeed, ret, results>>

NextExplore == MainRegime \/ MainReport

SpecExplore == InitExplore /\ [][NextExplore]_vars

\* the place of results[i] in the order "H_frac descending, ties in the order
\* of enumeration"
Place(rs, i) ==
    1 + Cardinality({j \in 1..Len(rs) : RatLt(rs[i].H_frac, rs[j].H_frac)})
      + Cardinality({j \in 1..(i - 1) : rs[j].H_frac = rs[i].H_frac})

\* the counters of the n-th pass (n from 1): p_L outermost, pi_B innermost
NthIdx(n) ==
    [d \in 1..7 |->
        LET inner == IF d = 7 THEN 1
                     ELSE IF d >= 5 THEN 3
                     ELSE IF d >= 3 THEN 9
                     ELSE IF d = 2 THEN 27 ELSE 54
        IN (((n - 1) \div inner) % Len(Grids[d])) + 1]

\* C7: the explorer's output is the list of all regime records ordered by
\* H_frac descending and cut to the first K, records of equal H_frac in the
\* order in which the nested loops enumerated them (p_L outermost, pi_B
\* innermost).
C7_StableTopK ==
    /\ \A n \in 1..Len(results) :
          LET params == RegimeParams(NthIdx(n)) IN
          /\ results[n].p_L = params.p_L /\ results[n].b = params.b
          /\ results[n].h = params.h /\ results[n].k_L = params.k_L
          /\ results[n].k_H = params.k_H /\ results[n].pi_G = params.pi_G
          /\ results[n].pi_B = params.pi_B
    /\ op.pc = "done" =>
          /\ Len(results) = 108
          /\ Len(results_sorted) = K
          /\ \A i \in 1..Len(results) :
                Place(results, i) <= K =>
                    results_sorted[Place(results, i)] = results[i]

\* the output holds a tie (two regimes of equal H_frac, the one enumerated
\* first reported first) and a regime that the sort moved ahead of an
\* earlier one
C7_Witness ==
    /\ op.pc = "done"
    /\ \E a, b \in 1..Len(results_sorted) :
          /\ a < b
          /\ results_sorted[a].H_frac = results_sorted[b].H_frac
          /\ results_sorted[a] # results_sorted[b]
    /\ results_sorted[1] # results[1]
    /\ \E a, b \in 1..Len(results_sorted) :
          RatLt(results_sorted[b].H_frac, results_sorted[a].H_frac)

====
